---- MODULE Spec2Model ----
(***************************************************************************)
(* A model of the real-time weather app: the display helpers of utils.py,  *)
(* the provider client and the normalizer of weather_service.py, and the   *)
(* page script of app.py.                                                  *)
(*                                                                         *)
(* Python values are modelled as follows.  A dict is a function from its   *)
(* keys, a list is a sequence, a str that is only passed around is a       *)
(* string, a str that is inspected character by character is a sequence    *)
(* of one-character strings.  A number on which the code does arithmetic   *)
(* is a fraction [num, den] in lowest terms with den > 0; a number that is *)
(* only copied is an integer.  A call that can raise returns               *)
(* [ok |-> TRUE, v |-> value] or [ok |-> FALSE, exc |-> class, arg |-> _]. *)
(***************************************************************************)
EXTENDS Integers, Sequences, FiniteSets, TLC

VARIABLES
    weather_code,   \* get_weather_icon: argument
    description,    \* get_weather_icon: argument
    icon,           \* get_weather_icon: returned icon, NotCalled before the call
    degrees,        \* get_wind_direction: argument
    direction,      \* get_wind_direction: returned label, NotCalled before the call
    raw,            \* normalizer: the payload handed to it
    parser,         \* normalizer: "current" or "forecast", the entry point in use
    normalized,     \* normalizer: what the last call returned or raised
    passes,         \* normalizer: calls made so far, each on the previous result
    API_KEY,        \* weather_service.API_KEY, os.getenv's answer at import
    service,        \* the WeatherService in use (NoService: none constructed)
    calls,          \* the get_current_weather / get_forecast calls made, in order
    sent,           \* the requests.get calls made, in order
    net,            \* how the network answered the last request
    returned,       \* what the last get_current_weather / get_forecast returned
    pc,             \* page script: where the current run is
    city,           \* page script: the text input's value in this run
    units,          \* page script: "metric" or "imperial", from the radio
    weather,        \* page script: parse_current_weather's outcome in this run
    forecast,       \* page script: parse_forecast's outcome in this run
    fetched,        \* page script: the client methods called in this run
    shown,          \* page script: what this run has put on the page
    runs            \* page script: runs started so far

iconVars == <<weather_code, description, icon>>
windVars == <<degrees, direction>>
parseVars == <<raw, parser, normalized, passes>>
clientVars == <<API_KEY, service, calls, sent, net, returned>>
pageVars == <<pc, city, units, weather, forecast, fetched, shown, runs>>
vars == <<iconVars, windVars, parseVars, clientVars, pageVars>>

NotCalled == "<not called>"

----------------------------------------------------------------------------
(* Arithmetic on fractions.                                                *)

Abs(n) == IF n < 0 THEN -n ELSE n

RECURSIVE GCD(_, _)
GCD(a, b) == IF b = 0 THEN a ELSE GCD(b, a % b)

\* The fraction n/d (d # 0) in lowest terms, with a positive denominator.
Rat(n, d) ==
    LET g == GCD(Abs(n), Abs(d))
        s == IF d < 0 THEN -1 ELSE 1
    IN  [num |-> (s * n) \div g, den |-> (s * d) \div g]

RatMul(x, y) == Rat(x.num * y.num, x.den * y.den)
RatDiv(x, y) == Rat(x.num * y.den, x.den * y.num)

\* Python's round(x) for the fraction x: to the nearest integer, a tie going
\* to the even neighbour.
round(x) ==
    LET q == x.num \div x.den
        r == x.num % x.den
    IN  IF 2 * r < x.den THEN q
        ELSE IF 2 * r > x.den THEN q + 1
        ELSE IF q % 2 = 0 THEN q ELSE q + 1

----------------------------------------------------------------------------
(* str helpers: a str is a sequence of one-character strings.             *)

UpperCase == <<"A", "B", "C", "D", "E", "F", "G", "H", "I", "J", "K", "L", "M",
               "N", "O", "P", "Q", "R", "S", "T", "U", "V", "W", "X", "Y", "Z">>
LowerCase == <<"a", "b", "c", "d", "e", "f", "g", "h", "i", "j", "k", "l", "m",
               "n", "o", "p", "q", "r", "s", "t", "u", "v", "w", "x", "y", "z">>

LowerChar(c) ==
    IF \E i \in DOMAIN UpperCase : UpperCase[i] = c
    THEN LowerCase[CHOOSE i \in DOMAIN UpperCase : UpperCase[i] = c]
    ELSE c

\* str.lower()
lower(s) == [i \in DOMAIN s |-> LowerChar(s[i])]

\* sub in s
Contains(sub, s) ==
    \E i \in 0..(Len(s) - Len(sub)) : SubSeq(s, i + 1, i + Len(sub)) = sub

----------------------------------------------------------------------------
(* utils.get_weather_icon                                                  *)

\* The emoji of utils.py, by name.
ThunderstormIcon == "thunderstorm"   \* U+26C8
DrizzleIcon      == "drizzle"        \* U+1F326
RainIcon         == "rain"           \* U+1F327
SnowIcon         == "snow"           \* U+2744
AtmosphereIcon   == "atmosphere"     \* U+1F32B
ClearIcon        == "clear"          \* U+2600
CloudsIcon       == "clouds"         \* U+2601
DefaultIcon      == "default"        \* U+1F324

\* range(start, stop) as a dict key, and an int as a dict key.
RangeKey(start, stop) == [isRange |-> TRUE, start |-> start, stop |-> stop]
IntKey(n) == [isRange |-> FALSE, start |-> n, stop |-> n + 1]

\* The dict icon_map as its items in insertion order.
icon_map ==
    << [key |-> RangeKey(200, 233), icon |-> ThunderstormIcon],
       [key |-> RangeKey(300, 322), icon |-> DrizzleIcon],
       [key |-> RangeKey(500, 505), icon |-> RainIcon],
       [key |-> RangeKey(505, 532), icon |-> RainIcon],
       [key |-> RangeKey(600, 623), icon |-> SnowIcon],
       [key |-> RangeKey(700, 782), icon |-> AtmosphereIcon],
       [key |-> IntKey(800),        icon |-> ClearIcon],
       [key |-> RangeKey(801, 805), icon |-> CloudsIcon] >>

\* weather_code in icon_map, icon_map[weather_code]: an int equals no range
\* object, so only an int key can match.
ExactMatches(code) ==
    {i \in DOMAIN icon_map : ~icon_map[i].key.isRange /\ icon_map[i].key.start = code}

\* isinstance(code_range, range) and weather_code in code_range
RangeMatches(code) ==
    {i \in DOMAIN icon_map :
        /\ icon_map[i].key.isRange
        /\ icon_map[i].key.start <= code
        /\ code < icon_map[i].key.stop}

Min(S) == CHOOSE m \in S : \A n \in S : m <= n

Str_rain    == <<"r", "a", "i", "n">>
Str_cloud   == <<"c", "l", "o", "u", "d">>
Str_clear   == <<"c", "l", "e", "a", "r">>
Str_snow    == <<"s", "n", "o", "w">>
Str_thunder == <<"t", "h", "u", "n", "d", "e", "r">>
Str_storm   == <<"s", "t", "o", "r", "m">>

\* Mutant of DescriptionIcon: the snow test moved above the rain test.
DescriptionIcon_SnowFirst(desc) ==
    LET description_lower == lower(desc)
    IN  IF Contains(Str_snow, description_lower) THEN SnowIcon
        ELSE IF Contains(Str_rain, description_lower) THEN RainIcon
        ELSE IF Contains(Str_cloud, description_lower) THEN CloudsIcon
        ELSE IF Contains(Str_clear, description_lower) THEN ClearIcon
        ELSE IF \/ Contains(Str_thunder, description_lower)
                \/ Contains(Str_storm, description_lower) THEN ThunderstormIcon
        ELSE DefaultIcon

\* The if/elif chain on the lowercased description, then the default.
DescriptionIcon(desc) ==
    LET description_lower == lower(desc)
    IN  IF Contains(Str_rain, description_lower) THEN RainIcon
        ELSE IF Contains(Str_cloud, description_lower) THEN CloudsIcon
        ELSE IF Contains(Str_clear, description_lower) THEN ClearIcon
        ELSE IF Contains(Str_snow, description_lower) THEN SnowIcon
        ELSE IF \/ Contains(Str_thunder, description_lower)
                \/ Contains(Str_storm, description_lower) THEN ThunderstormIcon
        ELSE DefaultIcon

get_weather_icon(code, desc) ==
    IF ExactMatches(code) # {} THEN icon_map[Min(ExactMatches(code))].icon
    ELSE IF RangeMatches(code) # {} THEN icon_map[Min(RangeMatches(code))].icon
    ELSE DescriptionIcon(desc)

----------------------------------------------------------------------------
(* utils.get_wind_direction                                                *)

directions == <<"N", "NNE", "NE", "ENE", "E", "ESE", "SE", "SSE",
                "S", "SSW", "SW", "WSW", "W", "WNW", "NW", "NNW">>

SectorWidth == Rat(45, 2)   \* 22.5

\* Mutant of get_wind_direction: int() in place of round().
get_wind_direction_Truncating(deg) ==
    LET x == RatDiv(deg, SectorWidth)
        index == (x.num \div x.den) % Len(directions)
    IN  directions[index + 1]

\* A list index past the end raises IndexError; the % keeps it inside.
get_wind_direction(deg) ==
    LET index == round(RatDiv(deg, SectorWidth)) % Len(directions)
    IN  directions[index + 1]

----------------------------------------------------------------------------
(* Python subscripting, with the exceptions it raises.                     *)

OkDict(d) == [ok |-> TRUE, type |-> "dict", v |-> d]
OkList(l) == [ok |-> TRUE, type |-> "list", v |-> l]
OkValue(x) == [ok |-> TRUE, type |-> "value", v |-> x]
Raised(exc, arg) == [ok |-> FALSE, exc |-> exc, arg |-> arg]
NoOutcome == Raised(NotCalled, "")

\* d[k] on a dict: KeyError(k) when k is not a key.
GetItem(d, k) == IF k \in DOMAIN d THEN OkValue(d[k]) ELSE Raised("KeyError", k)

\* r[k] where r is the outcome of the subscript to its left.
ThenItem(r, k) == IF r.ok THEN GetItem(r.v, k) ELSE r

\* r[0] on a list: IndexError when the list is empty.
ThenFirst(r) ==
    IF ~r.ok THEN r
    ELSE IF Len(r.v) > 0 THEN OkValue(r.v[1])
    ELSE Raised("IndexError", "list index out of range")

\* d.get(k, default)
DictGet(d, k, default) == IF k \in DOMAIN d THEN d[k] ELSE default

\* r.get(k, default) where r is the outcome of the subscript to its left.
ThenGet(r, k, default) == IF r.ok THEN OkValue(DictGet(r.v, k, default)) ELSE r

\* "error" in x: a key test on a dict; on a list of dicts an element test,
\* which no dict passes.
HasError(r) == r.ok /\ r.type = "dict" /\ "error" \in DOMAIN r.v

\* str(KeyError(k)) is repr(k).
KeyErrorText(k) == "'" \o k \o "'"

\* The outcome of evaluating a dict display whose values are the outcomes
\* exprs[i].val, left to right: the dict, or the first exception raised.
DictDisplay(exprs) ==
    LET failed == {i \in DOMAIN exprs : ~exprs[i].val.ok}
        names == {exprs[i].name : i \in DOMAIN exprs}
        At(n) == exprs[CHOOSE i \in DOMAIN exprs : exprs[i].name = n].val.v
    IN  IF failed = {} THEN OkDict([n \in names |-> At(n)])
        ELSE exprs[Min(failed)].val

Zero == Rat(0, 1)
Thousand == Rat(1000, 1)
Hundred == Rat(100, 1)

----------------------------------------------------------------------------
(* WeatherService.parse_current_weather                                    *)

E(name, val) == [name |-> name, val |-> val]

\* Mutant of CurrentDisplay: wind.deg subscripted instead of .get, and the
\* visibility left in meters.
CurrentDisplay_Strict(data) ==
    LET d(k) == GetItem(data, k)
        weather0 == ThenFirst(d("weather"))
        visibility == DictGet(data, "visibility", Zero)
    IN  DictDisplay(<<
            E("city", d("name")),
            E("country", ThenItem(d("sys"), "country")),
            E("temperature", ThenItem(d("main"), "temp")),
            E("feels_like", ThenItem(d("main"), "feels_like")),
            E("temp_min", ThenItem(d("main"), "temp_min")),
            E("temp_max", ThenItem(d("main"), "temp_max")),
            E("humidity", ThenItem(d("main"), "humidity")),
            E("pressure", ThenItem(d("main"), "pressure")),
            E("weather_id", ThenItem(weather0, "id")),
            E("weather_main", ThenItem(weather0, "main")),
            E("weather_description", ThenItem(weather0, "description")),
            E("weather_icon", ThenItem(weather0, "icon")),
            E("wind_speed", ThenItem(d("wind"), "speed")),
            E("wind_deg", ThenItem(d("wind"), "deg")),
            E("clouds", ThenItem(d("clouds"), "all")),
            E("sunrise", ThenItem(d("sys"), "sunrise")),
            E("sunset", ThenItem(d("sys"), "sunset")),
            E("timezone", d("timezone")),
            E("visibility", OkValue(visibility)) >>)

CurrentDisplay(data) ==
    LET d(k) == GetItem(data, k)
        weather0 == ThenFirst(d("weather"))
        visibility == DictGet(data, "visibility", Zero)
    IN  DictDisplay(<<
            E("city", d("name")),
            E("country", ThenItem(d("sys"), "country")),
            E("temperature", ThenItem(d("main"), "temp")),
            E("feels_like", ThenItem(d("main"), "feels_like")),
            E("temp_min", ThenItem(d("main"), "temp_min")),
            E("temp_max", ThenItem(d("main"), "temp_max")),
            E("humidity", ThenItem(d("main"), "humidity")),
            E("pressure", ThenItem(d("main"), "pressure")),
            E("weather_id", ThenItem(weather0, "id")),
            E("weather_main", ThenItem(weather0, "main")),
            E("weather_description", ThenItem(weather0, "description")),
            E("weather_icon", ThenItem(weather0, "icon")),
            E("wind_speed", ThenItem(d("wind"), "speed")),
            E("wind_deg", ThenGet(d("wind"), "deg", Zero)),
            E("clouds", ThenItem(d("clouds"), "all")),
            E("sunrise", ThenItem(d("sys"), "sunrise")),
            E("sunset", ThenItem(d("sys"), "sunset")),
            E("timezone", d("timezone")),
            E("visibility", OkValue(RatDiv(visibility, Thousand))) >>)

\* Mutant of parse_current_weather: the pass-through of an error dict left out.
parse_current_weather_NoPassThrough(data) ==
    LET r == CurrentDisplay(data)
    IN  IF ~r.ok /\ r.exc = "KeyError"
        THEN OkDict([error |-> "Failed to parse weather data: " \o KeyErrorText(r.arg)])
        ELSE r

\* except KeyError as e: any other exception leaves the function.
parse_current_weather(data) ==
    IF "error" \in DOMAIN data THEN OkDict(data)
    ELSE LET r == CurrentDisplay(data)
         IN  IF ~r.ok /\ r.exc = "KeyError"
             THEN OkDict([error |-> "Failed to parse weather data: " \o KeyErrorText(r.arg)])
             ELSE r

----------------------------------------------------------------------------
(* WeatherService.parse_forecast                                           *)

ForecastDisplay(item) ==
    LET d(k) == GetItem(item, k)
        weather0 == ThenFirst(d("weather"))
        pop == DictGet(item, "pop", Zero)
    IN  DictDisplay(<<
            E("timestamp", d("dt")),
            E("temperature", ThenItem(d("main"), "temp")),
            E("feels_like", ThenItem(d("main"), "feels_like")),
            E("temp_min", ThenItem(d("main"), "temp_min")),
            E("temp_max", ThenItem(d("main"), "temp_max")),
            E("humidity", ThenItem(d("main"), "humidity")),
            E("weather_id", ThenItem(weather0, "id")),
            E("weather_main", ThenItem(weather0, "main")),
            E("weather_description", ThenItem(weather0, "description")),
            E("weather_icon", ThenItem(weather0, "icon")),
            E("wind_speed", ThenItem(d("wind"), "speed")),
            E("clouds", ThenItem(d("clouds"), "all")),
            E("pop", OkValue(RatMul(pop, Hundred))) >>)

\* The for loop from item i on, forecast_list being what was appended so far.
RECURSIVE ForecastLoop(_, _, _)
ForecastLoop(items, i, forecast_list) ==
    IF i > Len(items) THEN OkList(forecast_list)
    ELSE LET r == ForecastDisplay(items[i])
         IN  IF r.ok THEN ForecastLoop(items, i + 1, Append(forecast_list, r.v))
             ELSE r

parse_forecast(data) ==
    IF "error" \in DOMAIN data THEN OkDict(data)
    ELSE LET l == GetItem(data, "list")
             r == IF l.ok THEN ForecastLoop(l.v, 1, <<>>) ELSE l
         IN  IF ~r.ok /\ r.exc = "KeyError"
             THEN OkDict([error |-> "Failed to parse forecast data: " \o KeyErrorText(r.arg)])
             ELSE r

----------------------------------------------------------------------------
(* Provider payloads: what response.json() can hand to the normalizer.     *)

MaxMissing == 2    \* fields removed from one current-weather payload
MaxItems == 2      \* entries in one forecast list
MaxPasses == 3     \* times a normalizer is applied to its own result

Str_light_rain == <<"l", "i", "g", "h", "t", " ", "r", "a", "i", "n">>
Str_Clear_Sky == <<"C", "l", "e", "a", "r", " ", "S", "k", "y">>

\* A complete current-weather payload: visibility in meters, wind.deg in
\* degrees, every copied number distinct.
CurrentPayload(meters, deg) ==
    [ name |-> "London",
      sys |-> [country |-> "GB", sunrise |-> 1700000001, sunset |-> 1700000002],
      main |-> [temp |-> 152, feels_like |-> 148, temp_min |-> 141,
                temp_max |-> 163, humidity |-> 60, pressure |-> 1012],
      weather |-> << [id |-> 500, main |-> "Rain",
                      description |-> Str_light_rain, icon |-> "10d"] >>,
      wind |-> [speed |-> 4, deg |-> Rat(deg, 1)],
      clouds |-> [all |-> 75],
      timezone |-> 3600,
      visibility |-> Rat(meters, 1) ]

\* A complete forecast entry for slot t: pop is percent/100.
ForecastItem(t, percent) ==
    [ dt |-> 1700000000 + 10800 * t,
      main |-> [temp |-> 100 + t, feels_like |-> 200 + t, temp_min |-> 300 + t,
                temp_max |-> 400 + t, humidity |-> 50 + t],
      weather |-> << [id |-> 800 + t, main |-> "Clouds",
                      description |-> Str_Clear_Sky, icon |-> "02d"] >>,
      wind |-> [speed |-> 600 + t],
      clouds |-> [all |-> 70 + t],
      pop |-> Rat(percent, 100) ]

Drop(d, k) == [x \in DOMAIN d \ {k} |-> d[x]]

\* The payload d without the field at path p.  <<"weather", "[0]">> removes
\* the entry of the weather list, leaving the list empty.
DropPath(d, p) ==
    IF p[1] \notin DOMAIN d THEN d
    ELSE IF Len(p) = 1 THEN Drop(d, p[1])
    ELSE IF p[1] = "weather"
         THEN IF d.weather = <<>> THEN d
              ELSE IF Len(p) = 2 THEN [d EXCEPT !.weather = <<>>]
              ELSE [d EXCEPT !.weather = <<Drop(d.weather[1], p[3])>>]
    ELSE [d EXCEPT ![p[1]] = Drop(d[p[1]], p[2])]

RECURSIVE DropAll(_, _)
DropAll(d, ps) ==
    IF ps = {} THEN d
    ELSE LET p == CHOOSE q \in ps : TRUE
         IN  DropAll(DropPath(d, p), ps \ {p})

WeatherPaths ==
    {<<"weather">>, <<"weather", "[0]">>}
    \cup {<<"weather", "[0]", k>> : k \in {"id", "main", "description", "icon"}}

CurrentPaths ==
    {<<"name">>, <<"sys">>, <<"main">>, <<"wind">>, <<"clouds">>,
     <<"timezone">>, <<"visibility">>}
    \cup {<<"sys", k>> : k \in {"country", "sunrise", "sunset"}}
    \cup {<<"main", k>> : k \in {"temp", "feels_like", "temp_min", "temp_max",
                                 "humidity", "pressure"}}
    \cup {<<"wind", k>> : k \in {"speed", "deg"}}
    \cup {<<"clouds", "all">>}
    \cup WeatherPaths

ItemPaths ==
    {<<"dt">>, <<"main">>, <<"wind">>, <<"clouds">>, <<"pop">>}
    \cup {<<"main", k>> : k \in {"temp", "feels_like", "temp_min", "temp_max",
                                 "humidity"}}
    \cup {<<"wind", "speed">>, <<"clouds", "all">>}
    \cup WeatherPaths

\* The error dicts the Provider Client and the normalizers produce.
ErrorResults ==
    { [error |-> "City 'Atlantis' not found"],
      [error |-> "Request failed: timed out"],
      [error |-> "Failed to parse weather data: 'main'"] }

CurrentValid == {CurrentPayload(m, g) : m \in {0, 7500, 10000}, g \in {0, 90}}

CurrentInputs ==
    {DropAll(c, ps) : c \in CurrentValid,
                      ps \in {q \in SUBSET CurrentPaths : Cardinality(q) <= MaxMissing}}

ItemInputs ==
    {ForecastItem(t, t * 35) : t \in 1..2}
    \cup {DropPath(ForecastItem(1, 35), p) : p \in ItemPaths}

RECURSIVE SeqsUpTo(_, _)
SeqsUpTo(S, n) ==
    IF n = 0 THEN {<<>>}
    ELSE LET shorter == SeqsUpTo(S, n - 1)
         IN  shorter \cup {Append(q, x) : q \in {r \in shorter : Len(r) = n - 1}, x \in S}

ForecastInputs ==
    {[cod |-> "200", list |-> l] : l \in SeqsUpTo(ItemInputs, MaxItems)}
    \cup {[cod |-> "200"]}

\* A payload that carries an "error" key besides its data.
ErrorInputs(payload) == ErrorResults \cup {[k \in DOMAIN payload \cup {"error"} |->
                            IF k = "error" THEN "rate limited" ELSE payload[k]]}

----------------------------------------------------------------------------
(* The normalizers applied to provider payloads.                           *)

Normalize(which, data) ==
    IF which = "current" THEN parse_current_weather(data) ELSE parse_forecast(data)

InitParse ==
    /\ parser \in {"current", "forecast"}
    /\ raw \in IF parser = "current"
               THEN CurrentInputs \cup ErrorInputs(CurrentPayload(10000, 90))
               ELSE ForecastInputs
                    \cup ErrorInputs([cod |-> "200", list |-> <<ForecastItem(1, 35)>>])
    /\ normalized = NoOutcome
    /\ passes = 0

\* weather_service.parse_current_weather(current_data)
ParseCurrent ==
    /\ parser = "current"
    /\ passes = 0
    /\ normalized' = parse_current_weather(raw)
    /\ passes' = 1
    /\ UNCHANGED <<raw, parser>>
    /\ UNCHANGED <<iconVars, windVars, clientVars, pageVars>>

\* weather_service.parse_forecast(forecast_data)
ParseForecast ==
    /\ parser = "forecast"
    /\ passes = 0
    /\ normalized' = parse_forecast(raw)
    /\ passes' = 1
    /\ UNCHANGED <<raw, parser>>
    /\ UNCHANGED <<iconVars, windVars, clientVars, pageVars>>

\* The normalizer applied to the error dict it returned.
ParseAgain ==
    /\ passes \in 1..(MaxPasses - 1)
    /\ HasError(normalized)
    /\ normalized' = Normalize(parser, normalized.v)
    /\ passes' = passes + 1
    /\ UNCHANGED <<raw, parser>>
    /\ UNCHANGED <<iconVars, windVars, clientVars, pageVars>>

----------------------------------------------------------------------------
(* WeatherService.__init__                                                 *)

PyNone == [type |-> "NoneType", v |-> ""]
PyStr(x) == [type |-> "str", v |-> x]

\* bool(x) for None and for a str
Truthy(x) == x.type = "str" /\ x.v # ""

\* x or y
PyOr(x, y) == IF Truthy(x) THEN x ELSE y

\* What os.getenv can answer, and what a caller can pass as api_key.
KeyValues == {PyNone, PyStr(""), PyStr("secret-key")}

NoService == [api_key |-> PyNone, constructed |-> FALSE]

\* Mutant of WeatherService_init: `is None` in place of the truth test.
WeatherService_init_NoneOnly(api_key, env_key) ==
    LET self_api_key == PyOr(api_key, env_key)
    IN  IF self_api_key.type = "NoneType"
        THEN Raised("ValueError",
                    "API key not found. Please set OPENWEATHER_API_KEY in .env file")
        ELSE OkValue([api_key |-> self_api_key, constructed |-> TRUE])

\* WeatherService(api_key) with the module's API_KEY being env_key: the new
\* object, or the ValueError raised.
WeatherService_init(api_key, env_key) ==
    LET self_api_key == PyOr(api_key, env_key)
    IN  IF ~Truthy(self_api_key)
        THEN Raised("ValueError",
                    "API key not found. Please set OPENWEATHER_API_KEY in .env file")
        ELSE OkValue([api_key |-> self_api_key, constructed |-> TRUE])

----------------------------------------------------------------------------
(* requests, as the client uses it.                                        *)

BASE_URL == "https://api.openweathermap.org/data/2.5"
TIMEOUT == 10

\* How the network can answer one GET: an exception of requests.get, or a
\* final response with a status code and a body that is JSON or is not.
Response(status_code, body) ==
    [kind |-> "response", status_code |-> status_code, body |-> body]
JsonBody(data) == [json |-> TRUE, data |-> data]
NotJson == [json |-> FALSE, data |-> <<>>]
NetworkErrors == {[kind |-> "ConnectionError"], [kind |-> "Timeout"]}

StatusCodes == {200, 300, 404, 500}

NetOutcomes(payloads) ==
    NetworkErrors
    \cup {Response(c, b) : c \in StatusCodes,
                          b \in {NotJson} \cup {JsonBody(d) : d \in payloads}}

\* requests.get(url, params=params, timeout=10)
requests_get(answer) ==
    IF answer.kind = "response" THEN OkValue(answer)
    ELSE Raised(answer.kind, IF answer.kind = "Timeout" THEN "Read timed out."
                             ELSE "Connection aborted.")

\* Response.raise_for_status(): HTTPError for 4xx and 5xx, nothing otherwise.
raise_for_status(response) ==
    IF 400 <= response.status_code /\ response.status_code < 500
    THEN Raised("HTTPError", ToString(response.status_code) \o " Client Error")
    ELSE IF 500 <= response.status_code /\ response.status_code < 600
    THEN Raised("HTTPError", ToString(response.status_code) \o " Server Error")
    ELSE OkValue(response)

\* Response.json(): a body that is not JSON raises
\* requests.exceptions.JSONDecodeError, a RequestException.
response_json(response) ==
    IF response.body.json THEN OkDict(response.body.data)
    ELSE Raised("JSONDecodeError", "Expecting value: line 1 column 1 (char 0)")

\* The classes `except requests.exceptions.RequestException` catches.
RequestExceptions == {"HTTPError", "ConnectionError", "Timeout", "JSONDecodeError"}

\* The try block: get, raise_for_status, json.
TryRequest(answer) ==
    LET response == requests_get(answer)
        checked == IF response.ok THEN raise_for_status(response.v) ELSE response
    IN  IF checked.ok THEN response_json(checked.v) ELSE checked

\* The two except clauses, for the outcome r of the try block.
ExceptClauses(r, answer, a_city) ==
    IF r.ok THEN r
    ELSE IF r.exc = "HTTPError"
    THEN IF answer.status_code = 404
         THEN OkDict([error |-> "City '" \o a_city \o "' not found"])
         ELSE OkDict([error |-> "HTTP error: " \o r.arg])
    ELSE IF r.exc \in RequestExceptions
    THEN OkDict([error |-> "Request failed: " \o r.arg])
    ELSE r

Request(endpoint, self, a_city, a_units) ==
    [ url |-> BASE_URL \o endpoint,
      params |-> [q |-> a_city, appid |-> self.api_key.v, units |-> a_units],
      timeout |-> TIMEOUT ]

\* Mutant of get_current_weather: one more attempt after a timeout.
get_current_weather_Retry(self, a_city, a_units, answer) ==
    [ sent |-> IF answer.kind = "Timeout"
               THEN <<Request("/weather", self, a_city, a_units),
                      Request("/weather", self, a_city, a_units)>>
               ELSE <<Request("/weather", self, a_city, a_units)>>,
      result |-> ExceptClauses(TryRequest(answer), answer, a_city) ]

\* get_current_weather(city, units) when the network gives `answer`: the
\* requests it makes and what it returns.
get_current_weather(self, a_city, a_units, answer) ==
    [ sent |-> <<Request("/weather", self, a_city, a_units)>>,
      result |-> ExceptClauses(TryRequest(answer), answer, a_city) ]

\* get_forecast(city, units) when the network gives `answer`.
get_forecast(self, a_city, a_units, answer) ==
    [ sent |-> <<Request("/forecast", self, a_city, a_units)>>,
      result |-> ExceptClauses(TryRequest(answer), answer, a_city) ]

----------------------------------------------------------------------------
(* The Provider Client called directly, any number of times.               *)

MaxCalls == 2

Cities == {"London", "Nonexistent City123"}
Units == {"metric", "imperial"}
NoAnswer == [kind |-> NotCalled]

ClientPayloads ==
    { CurrentPayload(10000, 90),
      [cod |-> "404", message |-> "city not found"] }

InitClient ==
    /\ API_KEY \in KeyValues
    /\ \E api_key \in KeyValues :
          /\ WeatherService_init(api_key, API_KEY).ok
          /\ service = WeatherService_init(api_key, API_KEY).v
    /\ calls = <<>>
    /\ sent = <<>>
    /\ net = NoAnswer
    /\ returned = NoOutcome

CallCurrent(a_city, a_units, answer) ==
    LET call == get_current_weather(service, a_city, a_units, answer)
    IN  /\ Len(calls) < MaxCalls
        /\ calls' = Append(calls, [method |-> "get_current_weather",
                                   city |-> a_city, units |-> a_units])
        /\ sent' = sent \o call.sent
        /\ net' = answer
        /\ returned' = call.result
        /\ UNCHANGED <<API_KEY, service>>
        /\ UNCHANGED <<iconVars, windVars, parseVars, pageVars>>

CallForecast(a_city, a_units, answer) ==
    LET call == get_forecast(service, a_city, a_units, answer)
    IN  /\ Len(calls) < MaxCalls
        /\ calls' = Append(calls, [method |-> "get_forecast",
                                   city |-> a_city, units |-> a_units])
        /\ sent' = sent \o call.sent
        /\ net' = answer
        /\ returned' = call.result
        /\ UNCHANGED <<API_KEY, service>>
        /\ UNCHANGED <<iconVars, windVars, parseVars, pageVars>>

----------------------------------------------------------------------------
(* app.py: the page script.  Streamlit runs it top to bottom once per user *)
(* interaction; st.cache_resource keeps the service between runs.  `shown` *)
(* holds the elements a run renders that depend on the lookup; the title,  *)
(* the sidebar and the footer are the same in every run.                   *)

MaxRuns == 2

Element(kind, body) == [kind |-> kind, body |-> body]

PageCurrentPayloads ==
    { CurrentPayload(10000, 90),
      DropAll(CurrentPayload(10000, 90), {<<"wind", "deg">>, <<"visibility">>}),
      DropPath(CurrentPayload(10000, 90), <<"main">>),
      DropPath(CurrentPayload(10000, 90), <<"weather", "[0]">>) }

PageForecastPayloads ==
    { [cod |-> "200", list |-> <<ForecastItem(1, 35), ForecastItem(2, 70)>>],
      [cod |-> "200", list |-> <<ForecastItem(1, 35),
                                 DropPath(ForecastItem(2, 70), <<"main", "temp">>)>>],
      [cod |-> "200", list |-> <<DropPath(ForecastItem(1, 35), <<"weather", "[0]">>)>>],
      [cod |-> "200", list |-> <<>>] }

\* An exception nothing catches ends the run; Streamlit prints it.
Uncaught(r) == Element("exception", r.exc)

\* Lines 81-128: the current-weather section.
CurrentSection(w) ==
    Element("current",
        [ header |-> <<w.city, w.country>>,
          icon |-> get_weather_icon(w.weather_id, w.weather_description),
          temperature |-> w.temperature,
          feels_like |-> w.feels_like,
          humidity |-> w.humidity,
          pressure |-> w.pressure,
          wind_speed |-> w.wind_speed,
          wind_dir |-> get_wind_direction(w.wind_deg),
          description |-> <<w.weather_main, w.weather_description>>,
          sunrise |-> <<w.sunrise, w.timezone>>,
          sunset |-> <<w.sunset, w.timezone>>,
          clouds |-> w.clouds,
          visibility |-> w.visibility ])

\* Lines 140-209: the chart's two series (the daily cards repeat their data).
\* pd.DataFrame of an empty list has no 'timestamp' column: df['timestamp']
\* raises KeyError.
ForecastSection(f) ==
    IF f = <<>> THEN Element("exception", "KeyError")
    ELSE Element("forecast",
            [ x |-> [i \in DOMAIN f |-> f[i].timestamp],
              temperature |-> [i \in DOMAIN f |-> f[i].temperature],
              feels_like |-> [i \in DOMAIN f |-> f[i].feels_like] ])

\* Mutant of AfterCurrent: the error is shown and the run goes on to the
\* forecast.
AfterCurrent_FallThrough(w) ==
    IF ~w.ok THEN [shown |-> <<Uncaught(w)>>, pc |-> "crashed"]
    ELSE IF HasError(w) THEN [shown |-> <<Element("error", w.v.error)>>, pc |-> "forecast"]
    ELSE [shown |-> <<CurrentSection(w.v)>>, pc |-> "forecast"]

\* Lines 77-128: the branch on the normalized current weather: what the run
\* shows and where it goes next.
AfterCurrent(w) ==
    IF ~w.ok THEN [shown |-> <<Uncaught(w)>>, pc |-> "crashed"]
    ELSE IF HasError(w) THEN [shown |-> <<Element("error", w.v.error)>>, pc |-> "done"]
    ELSE [shown |-> <<CurrentSection(w.v)>>, pc |-> "forecast"]

\* Lines 137-209: the branch on the normalized forecast: the element added.
AfterForecast(f) ==
    IF ~f.ok THEN Uncaught(f)
    ELSE IF HasError(f)
    THEN Element("forecast_error", "Failed to fetch forecast: " \o f.v.error)
    ELSE ForecastSection(f.v)

InitPage ==
    /\ API_KEY \in KeyValues
    /\ service = NoService
    /\ calls = <<>>
    /\ sent = <<>>
    /\ net = NoAnswer
    /\ returned = NoOutcome
    /\ pc = "start"
    /\ city \in {"", "London"}
    /\ units \in Units
    /\ weather = NoOutcome
    /\ forecast = NoOutcome
    /\ fetched = <<>>
    /\ shown = <<>>
    /\ runs = 1

\* Lines 28-38: get_weather_service(), cached once it has returned.
GetWeatherService ==
    /\ pc = "start"
    /\ LET made == IF service.constructed THEN OkValue(service)
                   ELSE WeatherService_init(PyNone, API_KEY)
       IN  IF made.ok
           THEN /\ service' = made.v
                /\ pc' = "lookup"
                /\ shown' = shown
           ELSE /\ service' = service
                /\ pc' = "stopped"
                /\ shown' = <<Element("config_error", made.arg)>>
    /\ UNCHANGED <<API_KEY, calls, sent, net, returned,
                   city, units, weather, forecast, fetched, runs>>
    /\ UNCHANGED <<iconVars, windVars, parseVars>>

\* Lines 211-223: no city entered.
Welcome ==
    /\ pc = "lookup"
    /\ city = ""
    /\ shown' = <<Element("welcome", "")>>
    /\ pc' = "done"
    /\ UNCHANGED <<clientVars, city, units, weather, forecast, fetched, runs>>
    /\ UNCHANGED <<iconVars, windVars, parseVars>>

\* Lines 71-128: the current-weather lookup and what is rendered from it.
FetchCurrent(answer) ==
    /\ pc = "lookup"
    /\ city # ""
    /\ LET call == get_current_weather(service, city, units, answer)
           current_data == call.result
           w == IF current_data.ok THEN parse_current_weather(current_data.v)
                ELSE current_data
       IN  /\ calls' = Append(calls, [method |-> "get_current_weather",
                                      city |-> city, units |-> units])
           /\ fetched' = Append(fetched, "get_current_weather")
           /\ sent' = sent \o call.sent
           /\ net' = answer
           /\ returned' = current_data
           /\ weather' = w
           /\ shown' = AfterCurrent(w).shown
           /\ pc' = AfterCurrent(w).pc
    /\ UNCHANGED <<API_KEY, service, city, units, forecast, runs>>
    /\ UNCHANGED <<iconVars, windVars, parseVars>>

\* Lines 130-209: the forecast lookup and what is rendered from it.
FetchForecast(answer) ==
    /\ pc = "forecast"
    /\ LET call == get_forecast(service, city, units, answer)
           forecast_data == call.result
           f == IF forecast_data.ok THEN parse_forecast(forecast_data.v)
                ELSE forecast_data
           section == AfterForecast(f)
       IN  /\ calls' = Append(calls, [method |-> "get_forecast",
                                      city |-> city, units |-> units])
           /\ fetched' = Append(fetched, "get_forecast")
           /\ sent' = sent \o call.sent
           /\ net' = answer
           /\ returned' = forecast_data
           /\ forecast' = f
           /\ shown' = Append(shown, section)
           /\ pc' = IF section.kind = "exception" THEN "crashed" ELSE "done"
    /\ UNCHANGED <<API_KEY, service, city, units, weather, runs>>
    /\ UNCHANGED <<iconVars, windVars, parseVars>>

\* A widget interaction: Streamlit runs the script again with the new input.
Rerun(new_city, new_units) ==
    /\ pc \in {"done", "crashed", "stopped"}
    /\ runs < MaxRuns
    /\ runs' = runs + 1
    /\ city' = new_city
    /\ units' = new_units
    /\ weather' = NoOutcome
    /\ forecast' = NoOutcome
    /\ fetched' = <<>>
    /\ shown' = <<>>
    /\ pc' = "start"
    /\ UNCHANGED clientVars
    /\ UNCHANGED <<iconVars, windVars, parseVars>>

----------------------------------------------------------------------------
(* The display helpers applied to bounded inputs.                          *)

MaxCode == 999              \* condition codes 0..MaxCode
MaxQuarterDegrees == 1440   \* directions 0, 0.25, ..., MaxQuarterDegrees/4

Codes == 0..MaxCode

Words ==
    { <<"R", "a", "i", "n">>, <<"c", "l", "o", "u", "d", "y">>, Str_clear,
      <<"S", "N", "O", "W">>, Str_thunder, <<"S", "t", "o", "r", "m">>,
      <<"m", "i", "s", "t">> }

\* The empty description, one word, or two words with a space between.
Str_thunderstorm_with_light_rain ==
    <<"t", "h", "u", "n", "d", "e", "r", "s", "t", "o", "r", "m", " ", "w", "i", "t", "h", " ">>
    \o Str_light_rain
Str_clear_sky == <<"c", "l", "e", "a", "r", " ", "s", "k", "y">>

Descriptions ==
    {<<>>, Str_thunderstorm_with_light_rain, Str_clear_sky, Str_light_rain}
    \cup Words \cup {w1 \o <<" ">> \o w2 : w1 \in Words, w2 \in Words}

InitIcon ==
    /\ weather_code \in Codes
    /\ description \in Descriptions
    /\ icon = NotCalled

LookupIcon ==
    /\ icon = NotCalled
    /\ icon' = get_weather_icon(weather_code, description)
    /\ UNCHANGED <<weather_code, description>>
    /\ UNCHANGED <<windVars, parseVars, clientVars, pageVars>>

InitWind ==
    /\ degrees \in {[num |-> k, den |-> 4] : k \in 0..MaxQuarterDegrees}
    /\ direction = NotCalled

LookupWind ==
    /\ direction = NotCalled
    /\ direction' = get_wind_direction(degrees)
    /\ UNCHANGED degrees
    /\ UNCHANGED <<iconVars, parseVars, clientVars, pageVars>>

----------------------------------------------------------------------------
(* Specifications.  Each exercises one part of the program; the variables  *)
(* of the other parts stay at rest.                                        *)

IdleIcon == weather_code = 0 /\ description = <<>> /\ icon = NotCalled
IdleWind == degrees = Zero /\ direction = NotCalled
IdleParse ==
    parser = "none" /\ raw = [cod |-> "none"] /\ normalized = NoOutcome /\ passes = 0
IdleClient ==
    /\ API_KEY = PyNone
    /\ service = NoService
    /\ calls = <<>>
    /\ sent = <<>>
    /\ net = NoAnswer
    /\ returned = NoOutcome
IdlePage ==
    /\ pc = "idle"
    /\ city = ""
    /\ units = "metric"
    /\ weather = NoOutcome
    /\ forecast = NoOutcome
    /\ fetched = <<>>
    /\ shown = <<>>
    /\ runs = 0

\* The page script, run after run.
Init == InitPage /\ IdleIcon /\ IdleWind /\ IdleParse

Next ==
    \/ GetWeatherService
    \/ Welcome
    \/ \E answer \in NetOutcomes(PageCurrentPayloads) : FetchCurrent(answer)
    \/ \E answer \in NetOutcomes(PageForecastPayloads) : FetchForecast(answer)
    \/ \E new_city \in {"", "London"}, new_units \in Units : Rerun(new_city, new_units)

Spec == Init /\ [][Next]_vars

\* The Provider Client, called directly.
InitC == InitClient /\ IdlePage /\ IdleIcon /\ IdleWind /\ IdleParse

NextC ==
    \/ \E a_city \in Cities, a_units \in Units, answer \in NetOutcomes(ClientPayloads) :
          CallCurrent(a_city, a_units, answer)
    \/ \E a_city \in Cities, a_units \in Units, answer \in NetOutcomes(ClientPayloads) :
          CallForecast(a_city, a_units, answer)

SpecClient == InitC /\ [][NextC]_vars

\* The normalizers.
InitP == InitParse /\ IdleClient /\ IdlePage /\ IdleIcon /\ IdleWind

NextP == ParseCurrent \/ ParseForecast \/ ParseAgain

SpecParse == InitP /\ [][NextP]_vars

\* get_weather_icon.
InitI == InitIcon /\ IdleClient /\ IdlePage /\ IdleParse /\ IdleWind

NextI == LookupIcon

SpecIcon == InitI /\ [][NextI]_vars

\* get_wind_direction.
InitW == InitWind /\ IdleClient /\ IdlePage /\ IdleParse /\ IdleIcon

NextW == LookupWind

SpecWind == InitW /\ [][NextW]_vars

----------------------------------------------------------------------------
(* Properties of the display helpers.                                      *)

Icons == {ThunderstormIcon, DrizzleIcon, RainIcon, SnowIcon, AtmosphereIcon,
          ClearIcon, CloudsIcon, DefaultIcon}

\* The keyword rules of the description fallback, in precedence order.
KeywordRules ==
    << [words |-> {Str_rain}, icon |-> RainIcon],
       [words |-> {Str_cloud}, icon |-> CloudsIcon],
       [words |-> {Str_clear}, icon |-> ClearIcon],
       [words |-> {Str_snow}, icon |-> SnowIcon],
       [words |-> {Str_thunder, Str_storm}, icon |-> ThunderstormIcon] >>

RuleFires(i, desc) == \E w \in KeywordRules[i].words : Contains(w, lower(desc))

\* The ordered rule list: the first rule that applies decides.
IconByRules(code, desc) ==
    IF code = 800 THEN ClearIcon
    ELSE IF code \in 200..232 THEN ThunderstormIcon
    ELSE IF code \in 300..321 THEN DrizzleIcon
    ELSE IF code \in 500..531 THEN RainIcon
    ELSE IF code \in 600..622 THEN SnowIcon
    ELSE IF code \in 700..781 THEN AtmosphereIcon
    ELSE IF code \in 801..804 THEN CloudsIcon
    ELSE IF \E i \in DOMAIN KeywordRules : RuleFires(i, desc)
    THEN KeywordRules[Min({i \in DOMAIN KeywordRules : RuleFires(i, desc)})].icon
    ELSE DefaultIcon

\* C7: for every code and description get_weather_icon returns an icon, and
\* it is the icon of the ordered rule list: 800 clear, the six code ranges
\* whatever the description says, then the first keyword found in the
\* lowercased description in the order rain, cloud, clear, snow,
\* thunder/storm, then the default icon; the four examples of the
\* specification come out as stated.
C7_IconFollowsOrderedRules ==
    icon # NotCalled =>
        /\ icon \in Icons
        /\ icon = IconByRules(weather_code, description)
        /\ (weather_code = 200 /\ description = Str_thunderstorm_with_light_rain)
              => icon = ThunderstormIcon
        /\ (weather_code = 800 /\ description = Str_clear_sky) => icon = ClearIcon
        /\ (weather_code = 999 /\ description = Str_light_rain) => icon = RainIcon
        /\ (weather_code = 999 /\ description = <<>>) => icon = DefaultIcon

\* An unknown code whose description names snow before rain, in capitals:
\* the rain rule, which comes first, decides.
C7_Witness ==
    /\ weather_code = 999
    /\ description = <<"S", "N", "O", "W", " ", "R", "a", "i", "n">>
    /\ icon = RainIcon

\* Distance on the circle between the direction deg and the centre of sector
\* j, in units of 1/(2 * deg.den) degree.
SectorDistance(deg, j) ==
    LET circle == 720 * deg.den
        d == Abs(2 * deg.num - 45 * deg.den * j) % circle
    IN  IF d <= circle - d THEN d ELSE circle - d

LabelIndex(label) == (CHOOSE i \in DOMAIN directions : directions[i] = label) - 1

\* C8: for every direction on the quarter-degree grid get_wind_direction
\* returns one of the 16 labels, and no sector centre (index x 22.5 degrees)
\* is nearer to the input on the circle than the centre of the label
\* returned; 0 and 360 give N, 22.5 gives NNE and 348.75 gives N.
C8_NearestCompassLabel ==
    direction # NotCalled =>
        /\ \E i \in DOMAIN directions : directions[i] = direction
        /\ \A j \in 0..15 :
              SectorDistance(degrees, LabelIndex(direction)) <= SectorDistance(degrees, j)
        /\ degrees.num = 0 => direction = "N"
        /\ degrees.num = 1440 => direction = "N"
        /\ degrees.num = 90 => direction = "NNE"
        /\ degrees.num = 1395 => direction = "N"

\* 348.75 degrees: the rounded index is 16 and wraps to N.
C8_Witness == degrees = [num |-> 1395, den |-> 4] /\ direction = "N"

----------------------------------------------------------------------------
(* Properties of the normalizers.                                          *)

\* Whether the value at a path of string keys exists; "[0]" is the first
\* entry of a list.
RECURSIVE HasPath(_, _)
HasPath(x, p) ==
    IF p = <<>> THEN TRUE
    ELSE IF Head(p) = "[0]" THEN x # <<>> /\ HasPath(x[1], Tail(p))
    ELSE Head(p) \in DOMAIN x /\ HasPath(x[Head(p)], Tail(p))

OptionalPaths == {<<"wind", "deg">>, <<"visibility">>, <<"pop">>}

\* Every required field of a current-weather payload, of a forecast entry.
CurrentComplete(data) == \A p \in CurrentPaths \ OptionalPaths : HasPath(data, p)
ItemComplete(item) == \A p \in ItemPaths \ OptionalPaths : HasPath(item, p)

CurrentWeatherFields ==
    {"city", "country", "temperature", "feels_like", "temp_min", "temp_max",
     "humidity", "pressure", "weather_id", "weather_main", "weather_description",
     "weather_icon", "wind_speed", "wind_deg", "clouds", "sunrise", "sunset",
     "timezone", "visibility"}

ForecastPointFields ==
    {"timestamp", "temperature", "feels_like", "temp_min", "temp_max", "humidity",
     "weather_id", "weather_main", "weather_description", "weather_icon",
     "wind_speed", "clouds", "pop"}

FirstCurrentPass == parser = "current" /\ passes = 1 /\ "error" \notin DOMAIN raw
FirstForecastPass == parser = "forecast" /\ passes = 1 /\ "error" \notin DOMAIN raw

\* C1: for a payload that is not an ErrorResult parse_current_weather raises
\* nothing and returns a dict that is either a record with all 19 fields or
\* an ErrorResult, and it is an ErrorResult whenever a required field is
\* absent (no weather array, an empty weather array, no main block, ...).
C1_CurrentRecordOrError ==
    FirstCurrentPass =>
        /\ normalized.ok
        /\ normalized.type = "dict"
        /\ IF CurrentComplete(raw)
           THEN DOMAIN normalized.v = CurrentWeatherFields
           ELSE HasError(normalized)

\* The i-th forecast point is the i-th provider entry, field by field.
PointOfItem(point, item) ==
    /\ DOMAIN point = ForecastPointFields
    /\ point.timestamp = item.dt
    /\ point.temperature = item.main.temp
    /\ point.feels_like = item.main.feels_like
    /\ point.temp_min = item.main.temp_min
    /\ point.temp_max = item.main.temp_max
    /\ point.humidity = item.main.humidity
    /\ point.weather_id = item.weather[1].id
    /\ point.weather_main = item.weather[1].main
    /\ point.weather_description = item.weather[1].description
    /\ point.weather_icon = item.weather[1].icon
    /\ point.wind_speed = item.wind.speed
    /\ point.clouds = item.clouds.all

\* C5: for a payload with a list of n entries parse_forecast raises nothing
\* and returns either n forecast points, the i-th made from the i-th entry,
\* or, when any entry lacks a required field (an empty weather list
\* included), an ErrorResult.
C5_ForecastAllOrNothing ==
    (FirstForecastPass /\ "list" \in DOMAIN raw) =>
        /\ normalized.ok
        /\ IF \A i \in DOMAIN raw.list : ItemComplete(raw.list[i])
           THEN /\ normalized.type = "list"
                /\ Len(normalized.v) = Len(raw.list)
                /\ \A i \in DOMAIN raw.list : PointOfItem(normalized.v[i], raw.list[i])
           ELSE HasError(normalized)

\* C4, on the state: a payload with the key "error" comes back as it went in,
\* after any number of passes.
ErrorPassesThrough ==
    (passes >= 1 /\ "error" \in DOMAIN raw) => normalized = OkDict(raw)

\* C4, on a step: a normalizer applied to the ErrorResult it returned returns
\* that ErrorResult.
ErrorStaysPut ==
    (passes >= 1 /\ HasError(normalized)) => normalized' = normalized

\* C4: parse_current_weather and parse_forecast return an input that has the
\* key "error" unchanged, so an error of the Provider Client keeps its
\* message, and a normalizer applied again to its own error output returns
\* the same ErrorResult.
C4_ErrorPassThrough == []ErrorPassesThrough /\ [][ErrorStaysPut]_vars

\* The client's not-found error after three passes through
\* parse_current_weather.
C4_Witness ==
    /\ parser = "current"
    /\ passes = 3
    /\ raw = [error |-> "City 'Atlantis' not found"]
    /\ normalized.ok
    /\ normalized.v.error = "City 'Atlantis' not found"

\* x = y * 100 and x = y / 1000 on fractions, by cross-multiplication.
IsTimes100(x, y) == x.num * y.den = 100 * y.num * x.den
IsOver1000(x, y) == 1000 * x.num * y.den = y.num * x.den

\* C6: for a payload with every required field, each field of the record is
\* the value at its path; wind_deg is wind.deg or 0 when absent, visibility
\* is meters/1000 or 0 when absent, pop is the fraction times 100 or 0 when
\* absent.
C6_FieldsAndDefaults ==
    /\ (FirstCurrentPass /\ CurrentComplete(raw)) =>
          LET w == normalized.v
          IN  /\ normalized.ok
              /\ normalized.type = "dict"
              /\ DOMAIN w = CurrentWeatherFields
              /\ w.city = raw.name
              /\ w.country = raw.sys.country
              /\ w.temperature = raw.main.temp
              /\ w.feels_like = raw.main.feels_like
              /\ w.temp_min = raw.main.temp_min
              /\ w.temp_max = raw.main.temp_max
              /\ w.humidity = raw.main.humidity
              /\ w.pressure = raw.main.pressure
              /\ w.weather_id = raw.weather[1].id
              /\ w.weather_main = raw.weather[1].main
              /\ w.weather_description = raw.weather[1].description
              /\ w.weather_icon = raw.weather[1].icon
              /\ w.wind_speed = raw.wind.speed
              /\ w.clouds = raw.clouds.all
              /\ w.sunrise = raw.sys.sunrise
              /\ w.sunset = raw.sys.sunset
              /\ w.timezone = raw.timezone
              /\ IF "deg" \in DOMAIN raw.wind THEN w.wind_deg = raw.wind.deg
                 ELSE w.wind_deg.num = 0
              /\ IF "visibility" \in DOMAIN raw THEN IsOver1000(w.visibility, raw.visibility)
                 ELSE w.visibility.num = 0
    /\ (/\ FirstForecastPass
        /\ "list" \in DOMAIN raw
        /\ \A i \in DOMAIN raw.list : ItemComplete(raw.list[i])) =>
          /\ normalized.ok
          /\ normalized.type = "list"
          /\ DOMAIN normalized.v = DOMAIN raw.list
          /\ \A i \in DOMAIN raw.list :
                /\ PointOfItem(normalized.v[i], raw.list[i])
                /\ IF "pop" \in DOMAIN raw.list[i]
                   THEN IsTimes100(normalized.v[i].pop, raw.list[i].pop)
                   ELSE normalized.v[i].pop.num = 0

\* A minimal valid current-weather payload: no wind.deg and no visibility.
C6_Witness ==
    /\ FirstCurrentPass
    /\ CurrentComplete(raw)
    /\ "deg" \notin DOMAIN raw.wind
    /\ "visibility" \notin DOMAIN raw
    /\ normalized.ok
    /\ normalized.v.wind_deg = Zero
    /\ normalized.v.visibility = Zero
    /\ normalized.v.temperature = 152

----------------------------------------------------------------------------
(* Properties of the Provider Client.                                      *)

Is2xx(answer) ==
    answer.kind = "response" /\ 200 <= answer.status_code /\ answer.status_code < 300

LastCall == calls[Len(calls)]

\* C3: get_current_weather and get_forecast raise nothing; a 2xx response
\* with a JSON body returns that payload, a 404 returns "City '<city>' not
\* found" for the city passed in, and every other non-2xx status, connection
\* error or timeout returns an ErrorResult.
C3_ClientNeverRaises ==
    calls # <<>> =>
        /\ returned.ok
        /\ (Is2xx(net) /\ net.body.json) => returned.v = net.body.data
        /\ (net.kind = "response" /\ net.status_code = 404)
              => returned.v = [error |-> "City '" \o LastCall.city \o "' not found"]
        /\ ~Is2xx(net) => HasError(returned)

Endpoint(method) == IF method = "get_current_weather" THEN "/weather" ELSE "/forecast"

\* C10: the requests issued are the calls made, one for one and in order:
\* the i-th request goes to the endpoint of the i-th call with that call's
\* city and units, the credential given at construction and the 10 second
\* timeout, whatever the earlier calls were and however they ended.
C10_OneRequestPerCall ==
    /\ Len(sent) = Len(calls)
    /\ service.constructed
    /\ \A i \in DOMAIN calls :
          /\ sent[i].url = BASE_URL \o Endpoint(calls[i].method)
          /\ sent[i].params = [q |-> calls[i].city, appid |-> service.api_key.v,
                               units |-> calls[i].units]
          /\ sent[i].timeout = 10

\* The same lookup made twice, the second one timing out.
C10_Witness ==
    /\ Len(calls) = 2
    /\ calls[1] = calls[2]
    /\ calls[1].method = "get_current_weather"
    /\ net.kind = "Timeout"
    /\ Len(sent) = 2
    /\ sent[1] = sent[2]

----------------------------------------------------------------------------
(* Properties of the page script.                                          *)

Called(method) == \E i \in DOMAIN fetched : fetched[i] = method

\* C2: in one run get_forecast is called only after parse_current_weather
\* returned a record; when the current-weather lookup ends in an ErrorResult
\* the run calls get_current_weather alone and shows the error message
\* alone; when the forecast lookup ends in an ErrorResult the run shows the
\* current weather it computed, then the forecast error.
C2_ForecastOnlyAfterCurrent ==
    /\ Called("get_forecast") =>
          /\ fetched = <<"get_current_weather", "get_forecast">>
          /\ weather.ok
          /\ ~HasError(weather)
          /\ DOMAIN weather.v = CurrentWeatherFields
    /\ HasError(weather) =>
          /\ fetched = <<"get_current_weather">>
          /\ forecast = NoOutcome
          /\ pc = "done"
          /\ shown = <<Element("error", weather.v.error)>>
    /\ HasError(forecast) =>
          /\ pc = "done"
          /\ Len(shown) = 2
          /\ shown[1].kind = "current"
          /\ shown[1].body.header = <<weather.v.city, weather.v.country>>
          /\ shown[1].body.temperature = weather.v.temperature
          /\ shown[2] = Element("forecast_error",
                                "Failed to fetch forecast: " \o forecast.v.error)

\* An unknown city: the 404 becomes the not-found message, and the run ends
\* with one request made.
C2_Witness ==
    /\ pc = "done"
    /\ net.kind = "response"
    /\ net.status_code = 404
    /\ fetched = <<"get_current_weather">>
    /\ shown = <<Element("error", "City 'London' not found")>>

NonEmptyKey(k) == k.type = "str" /\ k.v # ""

\* C9: WeatherService(api_key) raises the configuration error exactly when
\* neither api_key nor the environment's credential is a non-empty string;
\* the page stops exactly when the environment has no such credential, and
\* a request is made only by a constructed service holding one.
C9_NoRequestWithoutCredential ==
    /\ \A a \in KeyValues, e \in KeyValues :
          WeatherService_init(a, e).ok <=> (NonEmptyKey(a) \/ NonEmptyKey(e))
    /\ pc = "stopped" => ~NonEmptyKey(API_KEY)
    /\ pc \notin {"start", "stopped"} => (service.constructed /\ NonEmptyKey(API_KEY))
    /\ ~NonEmptyKey(API_KEY) => (~service.constructed /\ sent = <<>> /\ calls = <<>>)
    /\ sent # <<>> =>
          /\ service.constructed
          /\ \A i \in DOMAIN sent : sent[i].params.appid = API_KEY.v /\ API_KEY.v # ""

\* An empty credential in the environment: the second run stops as the first
\* did, no request made.
C9_Witness ==
    /\ API_KEY = PyStr("")
    /\ runs = 2
    /\ pc = "stopped"
    /\ sent = <<>>
    /\ shown[1].kind = "config_error"

====
